---- MODULE Spec2Model ----
(***************************************************************************)
(* License manager of electron-gumroad-license.                            *)
(*                                                                         *)
(* Two variants of createLicenseManager exist in the repository:           *)
(*   "store": src/src/index.ts      the key is kept in the electron-store  *)
(*   "file" : src/unnamed/part_000  the key is AES-256-CBC encrypted into  *)
(*            a license file, the store keeps the IV and the file path     *)
(* Both are modelled; cfg.variant selects the code an action follows.      *)
(*                                                                         *)
(* The injected collaborators are modelled by their contract: the HTTP     *)
(* transport either throws or yields the decoded Gumroad response; the     *)
(* electron-store is a key-value map with get/set/delete/clear that is     *)
(* reset to its defaults by clear; time is read from a clock that may      *)
(* advance between any two steps.                                          *)
(***************************************************************************)
EXTENDS Integers, Sequences, FiniteSets, TLC

(* ------------------------------ bounds -------------------------------- *)
\* the clock runs from 1 to MaxTime, in units of one day
MaxTime == 3
\* the licensing service stops counting activations when the uses of all keys
\* together reach this number
MaxServerUses == 2

\* 86_400_000 ms (one day) in clock units
DAY == 1

(* --------------------------- value domains ---------------------------- *)
Devices == {"d1", "d2"}
ProductId == "P"
\* machineIdSync(): a stable identifier per device
MachineId(d) == IF d = "d1" THEN "m1" ELSE "m2"
\* license keys a user may type
LicenseKeys == {"K1", "K2"}
\* keys the licensing service knows
ServerKeys == {"K1", "K2"}
\* randomBytes(16): the initialization vectors the generator may draw
IVs == {1, 2}
Variants == {"store", "file"}
\* an absent option is {}, a given one {v}
MaxUsesOptions == {{}, {1}}
MaxDaysOptions == {{}, {0}, {1}}

Defined(opt) == opt # {}
Val(opt) == CHOOSE v \in opt : TRUE

(* ----------------------------- strings -------------------------------- *)
\* String.prototype.trim on the strings of the model (" K1 " is K1 typed with
\* surrounding whitespace)
Trim(s) == IF s = " K1 " THEN "K1" ELSE s

\* Buffer.toString("hex") of a 16-byte IV
ToHex(iv) == IF iv = 1 THEN "01010101010101010101010101010101"
                       ELSE "02020202020202020202020202020202"

\* Buffer.from(s, "hex"): decoding stops at the first character pair that is
\* not hexadecimal, so a license key yields a buffer shorter than 16 bytes
FromHex(s) == IF s = ToHex(1) THEN [len |-> 16, iv |-> 1]
              ELSE IF s = ToHex(2) THEN [len |-> 16, iv |-> 2]
              ELSE [len |-> 0, iv |-> 0]

BoolToStringAlt(b) == "true"

\* new Boolean(b).toString()
BoolToString(b) == IF b THEN "true" ELSE "false"

(* ------------------------------ the store ----------------------------- *)
\* A store is a function from the dotted paths that are set to their values.
Has(s, p) == p \in DOMAIN s
StoreSet(s, p, v) == [q \in (DOMAIN s) \cup {p} |-> IF q = p THEN v ELSE s[q]]
StoreDeleteAlt(s, p) == s
StoreDelete(s, p) == [q \in (DOMAIN s) \ {p} |-> s[q]]
\* JavaScript's !x for a string read from the store
FalsyString(s, p) == ~Has(s, p) \/ s[p] = ""
\* JavaScript's !x for a number read from the store
FalsyNumber(s, p) == ~Has(s, p) \/ s[p] = 0

\* productId + machineIdSync()
EncryptionKey(d) == ProductId \o MachineId(d)

\* the defaults option of new Store(...); undefined fields are not set
StoreDefaults(c, d) ==
  LET base == ("license.fileName" :> "license")
              @@ ("license.fileExtension" :> "key")
              @@ ("license.clearInvalidConfig" :> "true")
  IN IF c.variant = "file"
       THEN base @@ ("license.filePath" :> "")
       ELSE IF ~c.disableEncryption
              THEN base @@ ("license.encryptionKey" :> EncryptionKey(d))
              ELSE base

(* ------------------------------ the codec ----------------------------- *)
\* createHash("sha256").update(productId + machineId).digest("base64").substr(0, 32)
DeriveKey(p, m) == <<"sha256", p \o m>>

\* aes-256-cbc of plaintext under (secret, iv); the cipher is injective in
\* all three, so a ciphertext is identified by them
Encrypt(plain, secret, iv) == [pt |-> plain, sec |-> secret, iv |-> iv, wellFormed |-> TRUE]

Garbage == "garbage"
Threw == "throw"
\* createDecipheriv + update + final.  A ciphertext whose length is no multiple
\* of the block size throws; under another secret the padding check of final()
\* throws, or passes on unrelated bytes; under the right secret and another IV
\* only the first block is wrong, the padding is intact and bytes that are not
\* the key come back without an error.
Decrypt(ct, secret, iv) ==
  IF ~ct.wellFormed THEN {Threw}
  ELSE IF ct.sec # secret THEN {Threw, Garbage}
  ELSE IF ct.iv # iv THEN {Garbage}
  ELSE {ct.pt}


(* --------------------------- the file system -------------------------- *)
\* options.licenseFilePath
LicenseFilePath == "dir"
\* path.join
Join(dir, name) == dir \o "/" \o name
\* existsSync
ExistsSync(files, path) == path \in DOMAIN files

(* ------------------------- the licensing service ---------------------- *)
Purchases(k) == {[license_key |-> k, refunded |-> r, chargebacked |-> c] : r \in BOOLEAN, c \in BOOLEAN}
PurchaseOptions(k) == {{}} \cup {{p} : p \in Purchases(k)}

\* the body of the POST request
Request(c, licenseKey, increaseUseCount) ==
  [license_key |-> IF c.variant = "store" THEN Trim(licenseKey) ELSE licenseKey,
   increment_uses_count |-> BoolToString(increaseUseCount)]

TotalUses(uses) == uses["K1"] + uses["K2"]

\* What the service may answer to a request, with its use counts afterwards.
\* A key it does not know is rejected.  A success answer to an incrementing
\* request counts one more use; the service accepts no activation once
\* MaxServerUses are counted.
ServiceAnswers(req, uses) ==
  LET k == req.license_key
      inc == req.increment_uses_count = "true"
  IN IF k \notin ServerKeys
       THEN {[body |-> [success |-> FALSE, purchase |-> {}, uses |-> 0], uses |-> uses]}
       ELSE {[body |-> [success |-> FALSE, purchase |-> p, uses |-> 0], uses |-> uses]
               : p \in PurchaseOptions(k)}
            \cup
            (IF inc /\ TotalUses(uses) >= MaxServerUses
               THEN {}
               ELSE LET n == IF inc THEN uses[k] + 1 ELSE uses[k]
                    IN {[body |-> [success |-> TRUE, purchase |-> p, uses |-> n],
                         uses |-> [uses EXCEPT ![k] = n]] : p \in PurchaseOptions(k)})

(* -------------------------- validateLicenseCode ----------------------- *)
NoResult == [status |-> "", error |-> "", purchase |-> {}, uses |-> 0]

\* the catch branch: the request threw
UnableToCheck == [status |-> "UnableToCheck", error |-> "TransportError", purchase |-> {}, uses |-> 0]

ClassifyAlt(result) ==
  IF ~result.success
    THEN [status |-> "InvalidLicense", error |-> "ActivationError", purchase |-> {}, uses |-> 0]
  ELSE IF result.purchase = {} \/ (\E p \in result.purchase : p.refunded)
    THEN [status |-> "InvalidLicense", error |-> "LicenseRefunded", purchase |-> {}, uses |-> 0]
  ELSE [status |-> "ValidLicense", error |-> "", purchase |-> result.purchase, uses |-> result.uses]

\* the classification of a decoded response
Classify(result) ==
  IF ~result.success
    THEN [status |-> "InvalidLicense", error |-> "ActivationError", purchase |-> {}, uses |-> 0]
  ELSE IF result.purchase = {} \/ (\E p \in result.purchase : p.refunded \/ p.chargebacked)
    THEN [status |-> "InvalidLicense", error |-> "LicenseRefunded", purchase |-> {}, uses |-> 0]
  ELSE [status |-> "ValidLicense", error |-> "", purchase |-> result.purchase, uses |-> result.uses]

\* the outcomes of one call whose request is req: the CheckResult it resolves
\* to and the service's use counts afterwards
ValidateLicenseCode(req, uses) ==
  {[result |-> UnableToCheck, uses |-> uses]}
  \cup {[result |-> Classify(a.body), uses |-> a.uses] : a \in ServiceAnswers(req, uses)}

(* ------------------------------- state -------------------------------- *)
VARIABLES
  cfg,        \* the options of createLicenseManager and the variant of its code
  devs,       \* the devices that run a license manager
  now,        \* Date.now()
  srvUses,    \* the service's use count of every key
  store,      \* per device: the electron-store named "license"
  files,      \* per device: the files on disk, path -> content
  pc,         \* per device: where the operation in flight is suspended
  local,      \* per device: the locals licenseKey, result and iv of that operation
  sent,       \* per device: the requests the operation has issued
  writes,     \* per device: the store paths the operation has written
  ret,        \* per device: what the call that just completed returned
  lastVerdict,\* per device: the last verdict of the service a recheck observed
  activated,  \* per device: an addLicense has returned success since the last clear
  probe       \* a direct call of validateLicenseCode: its request, the
              \* transport's answer and the CheckResult

vars == <<cfg, devs, now, srvUses, store, files, pc, local, sent, writes, ret,
          lastVerdict, activated, probe>>

\* precheck is the result of the maxUses pre-check of addLicense; cleared tells
\* that clearLicense ran while the operation was suspended
NoLocal == [licenseKey |-> "", precheck |-> NoResult, result |-> NoResult, iv |-> 0,
            cleared |-> FALSE]

NoBody == [success |-> FALSE, purchase |-> {}, uses |-> 0]
\* net is what the transport did with the request ("error": it failed with a
\* network error or a timeout, "response": it resolved), ok and json describe
\* the response, threw tells that the catch branch was taken
NoProbe == [request |-> [license_key |-> "", increment_uses_count |-> ""],
            net |-> "", ok |-> FALSE, json |-> FALSE,
            threw |-> FALSE, body |-> NoBody, result |-> NoResult]

\* what a call returned: outcome is how its last verification ended, prior the
\* last verdict a recheck had observed before the call, cleared whether
\* clearLicense ran while the call was suspended
NoRet == [op |-> "", status |-> "", error |-> "", purchase |-> {}, outcome |-> "",
          prior |-> "", cleared |-> FALSE]
Returned(op, status, error, purchase, outcome) ==
  [op |-> op, status |-> status, error |-> error, purchase |-> purchase, outcome |-> outcome,
   prior |-> "", cleared |-> FALSE]

\* the file variant never reads disableEncryption
Options == {c \in [variant : Variants, maxUses : MaxUsesOptions,
                   maxDaysBetweenChecks : MaxDaysOptions, disableEncryption : BOOLEAN] :
              c.variant = "file" => ~c.disableEncryption}

InitWith(D) ==
  /\ cfg \in Options
  /\ devs = D
  /\ now = 1
  /\ srvUses = [k \in ServerKeys |-> 0]
  /\ store = [d \in Devices |-> StoreDefaults(cfg, d)]
  /\ files = [d \in Devices |-> <<>>]
  /\ pc = [d \in Devices |-> "idle"]
  /\ local = [d \in Devices |-> NoLocal]
  /\ sent = [d \in Devices |-> <<>>]
  /\ writes = [d \in Devices |-> {}]
  /\ ret = [d \in Devices |-> NoRet]
  /\ lastVerdict = [d \in Devices |-> ""]
  /\ activated = [d \in Devices |-> FALSE]
  /\ probe = NoProbe

Init == InitWith({"d1"})

\* ret, sent and writes describe the call that has just completed; a step of
\* the environment forgets them
Forget ==
  /\ ret' = [d \in Devices |-> NoRet]
  /\ sent' = [d \in Devices |-> IF pc[d] = "idle" THEN <<>> ELSE sent[d]]
  /\ writes' = [d \in Devices |-> IF pc[d] = "idle" THEN {} ELSE writes[d]]

\* the operation of d ends, returning r
Return(d, r) ==
  /\ pc' = [pc EXCEPT ![d] = "idle"]
  /\ local' = [local EXCEPT ![d] = NoLocal]
  /\ ret' = [ret EXCEPT ![d] = [r EXCEPT !.prior = lastVerdict[d],
                                          !.cleared = local[d].cleared]]

\* the operation of d goes on at position p
Goto(d, p) ==
  /\ pc' = [pc EXCEPT ![d] = p]
  /\ ret' = [ret EXCEPT ![d] = NoRet]

\* the request validateLicenseCode issues is in flight
Send(d, req) == sent' = [sent EXCEPT ![d] = Append(@, req)]
InFlight(d) == sent[d][Len(sent[d])]

\* licenseStore.set(path, v) by the operation of d
Set(d, path, v) ==
  /\ store' = [store EXCEPT ![d] = StoreSet(@, path, v)]
  /\ writes' = [writes EXCEPT ![d] = @ \cup {path}]

(* ------------------------------ addLicense ---------------------------- *)
\* the call, up to its first await
AddLicense(d, k) ==
  /\ pc[d] = "idle"
  /\ local' = [local EXCEPT ![d] = [NoLocal EXCEPT !.licenseKey = k]]
  /\ writes' = [writes EXCEPT ![d] = {}]
  /\ ret' = [ret EXCEPT ![d] = NoRet]
  /\ IF Defined(cfg.maxUses)
       THEN /\ sent' = [sent EXCEPT ![d] = <<Request(cfg, k, FALSE)>>]
            /\ pc' = [pc EXCEPT ![d] = "add_precheck"]
       ELSE /\ sent' = [sent EXCEPT ![d] = <<Request(cfg, k, TRUE)>>]
            /\ pc' = [pc EXCEPT ![d] = "add_verify"]
  /\ UNCHANGED <<cfg, devs, probe, lastVerdict, activated, now, srvUses, store, files>>

\* the pre-check found the limit of activations reached
MaxUseExceededAlt(c, r) ==
  /\ r.status = "ValidLicense"
  /\ r.uses > Val(c.maxUses)

MaxUseExceeded(c, r) ==
  /\ r.status = "ValidLicense"
  /\ r.uses >= Val(c.maxUses)

\* the pre-check resolves
AddPrecheckReturns(d) ==
  /\ pc[d] = "add_precheck"
  /\ \E o \in ValidateLicenseCode(InFlight(d), srvUses) :
       /\ srvUses' = o.uses
       /\ IF MaxUseExceeded(cfg, o.result)
            THEN /\ Return(d, Returned("addLicense", "failure", "MaxUseExceeded", {}, o.result.status))
                 /\ UNCHANGED sent
            ELSE /\ Send(d, Request(cfg, local[d].licenseKey, TRUE))
                 /\ Goto(d, "add_verify")
                 /\ local' = [local EXCEPT ![d].result = o.result, ![d].precheck = o.result]
  /\ UNCHANGED <<cfg, devs, probe, lastVerdict, activated, now, store, files, writes>>

\* the two early returns after the incrementing verification
TurnedDownAlt(r) == r.status = "UnableToCheck"

TurnedDown(r) == r.status = "UnableToCheck" \/ r.status = "InvalidLicense"

\* the incrementing verification resolves
AddVerifyReturns(d) ==
  /\ pc[d] = "add_verify"
  /\ \E o \in ValidateLicenseCode(InFlight(d), srvUses) :
       /\ srvUses' = o.uses
       /\ IF TurnedDown(o.result)
            THEN Return(d, Returned("addLicense", "failure", o.result.error, {}, o.result.status))
            ELSE /\ local' = [local EXCEPT ![d].result = o.result]
                 /\ Goto(d, IF cfg.variant = "store" THEN "add_setKey" ELSE "add_setAttempt")
  /\ UNCHANGED <<cfg, devs, probe, lastVerdict, activated, now, store, files, sent, writes>>

\* what a successful addLicense returns
AddSuccess(d) ==
  Returned("addLicense", "success", "", local[d].result.purchase, local[d].result.status)

\* licenseStore.set("license.key", licenseKey)
AddSetKey(d) ==
  /\ pc[d] = "add_setKey"
  /\ Set(d, "license.key", local[d].licenseKey)
  /\ Goto(d, IF cfg.variant = "store" THEN "add_setAttempt" ELSE "add_writeFile")
  /\ UNCHANGED <<cfg, devs, probe, lastVerdict, activated, now, srvUses, files, local, sent>>

\* licenseStore.set("license.lastCheckAttempt", Date.now())
AddSetAttempt(d) ==
  /\ pc[d] = "add_setAttempt"
  /\ Set(d, "license.lastCheckAttempt", now)
  /\ Goto(d, "add_setSuccess")
  /\ UNCHANGED <<cfg, devs, probe, lastVerdict, activated, now, srvUses, files, local, sent>>

\* licenseStore.set("license.lastCheckSuccess", Date.now())
AddSetSuccess(d) ==
  /\ pc[d] = "add_setSuccess"
  /\ Set(d, "license.lastCheckSuccess", now)
  /\ IF cfg.variant = "store"
       THEN Return(d, AddSuccess(d))
       ELSE Goto(d, "add_setKey") /\ UNCHANGED local
  /\ activated' = [activated EXCEPT ![d] = @ \/ cfg.variant = "store"]
  /\ UNCHANGED <<cfg, devs, probe, lastVerdict, now, srvUses, files, sent>>

\* the path of the license file
LicenseFile(s) ==
  Join(LicenseFilePath, s["license.fileName"] \o "." \o s["license.fileExtension"])

\* the license file is encrypted and written; writeFileSync may throw
AddWriteFile(d) ==
  /\ pc[d] = "add_writeFile"
  /\ \/ \E v \in IVs :
          /\ files' = [files EXCEPT ![d] =
                         StoreSet(@, LicenseFile(store[d]),
                                  Encrypt(local[d].licenseKey, DeriveKey(ProductId, MachineId(d)), v))]
          /\ local' = [local EXCEPT ![d].iv = v]
          /\ Goto(d, "add_setIv")
     \/ /\ Return(d, Returned("addLicense", "exception", "WriteError", {}, local[d].result.status))
        /\ UNCHANGED files
  /\ UNCHANGED <<cfg, devs, probe, lastVerdict, activated, now, srvUses, store, sent, writes>>

\* licenseStore.set("license.key", iv.toString("hex"))
AddSetIv(d) ==
  /\ pc[d] = "add_setIv"
  /\ Set(d, "license.key", ToHex(local[d].iv))
  /\ Goto(d, "add_setFilePath")
  /\ UNCHANGED <<cfg, devs, probe, lastVerdict, activated, now, srvUses, files, local, sent>>

\* licenseStore.set("license.filePath", licenseFile), and the return
AddSetFilePath(d) ==
  /\ pc[d] = "add_setFilePath"
  /\ Set(d, "license.filePath", LicenseFile(store[d]))
  /\ Return(d, AddSuccess(d))
  /\ activated' = [activated EXCEPT ![d] = TRUE]
  /\ UNCHANGED <<cfg, devs, probe, lastVerdict, now, srvUses, files, sent>>

(* -------------------------- checkCurrentLicense ----------------------- *)
\* the offline-grace test of the UnableToCheck branch, on the value read as
\* lastCheckSuccess from path
GraceExpired(c, s, path, t) ==
  /\ Defined(c.maxDaysBetweenChecks)
  /\ Val(c.maxDaysBetweenChecks) # 0
  /\ \/ FalsyNumber(s, path)
     \/ t - s[path] > DAY * Val(c.maxDaysBetweenChecks)

\* the UnableToCheck branch: the path read is "lastCheckSuccess", which no
\* code writes (the timestamps are written under "license.")
WhenUnableToCheck(c, s, t) ==
  IF GraceExpired(c, s, "lastCheckSuccess", t)
    THEN Returned("checkCurrentLicense", "OutdatedLicense", "", {}, "UnableToCheck")
  ELSE IF Has(s, "license.purchase")
    THEN Returned("checkCurrentLicense", "ValidLicense", "", {s["license.purchase"]}, "UnableToCheck")
  ELSE Returned("checkCurrentLicense", "InvalidLicense", "", {}, "UnableToCheck")

\* the key the stored record yields: the stored key itself, or what the
\* license file decrypts to; Threw when createDecipheriv or final() throws
StoredKeys(c, d, s, fs) ==
  IF c.variant = "store"
    THEN {s["license.key"]}
    ELSE LET buf == FromHex(s["license.key"])
         IN IF buf.len # 16
              THEN {Threw}
              ELSE Decrypt(fs[s["license.filePath"]], DeriveKey(ProductId, MachineId(d)), buf.iv)

\* no license is on record
NotSet(c, s, fs) ==
  IF c.variant = "store"
    THEN FalsyString(s, "license.key")
    ELSE \/ FalsyString(s, "license.filePath")
         \/ ~ExistsSync(fs, s["license.filePath"])
         \/ FalsyString(s, "license.key")

\* the call, up to its await
CheckCurrentLicense(d) ==
  /\ pc[d] = "idle"
  /\ IF NotSet(cfg, store[d], files[d])
       THEN /\ Return(d, Returned("checkCurrentLicense", "NotSet", "", {}, ""))
            /\ sent' = [sent EXCEPT ![d] = <<>>]
            /\ writes' = [writes EXCEPT ![d] = {}]
            /\ UNCHANGED store
       ELSE \E k \in StoredKeys(cfg, d, store[d], files[d]) :
              IF k = Threw
                THEN /\ Return(d, Returned("checkCurrentLicense", "exception", "CryptoError", {}, ""))
                     /\ sent' = [sent EXCEPT ![d] = <<>>]
                     /\ writes' = [writes EXCEPT ![d] = {}]
                     /\ UNCHANGED store
                ELSE /\ local' = [local EXCEPT ![d] = [NoLocal EXCEPT !.licenseKey = k]]
                     /\ store' = [store EXCEPT ![d] = StoreSet(@, "license.lastCheckAttempt", now)]
                     /\ writes' = [writes EXCEPT ![d] = {"license.lastCheckAttempt"}]
                     /\ sent' = [sent EXCEPT ![d] = <<Request(cfg, k, FALSE)>>]
                     /\ pc' = [pc EXCEPT ![d] = "chk_verify"]
                     /\ ret' = [ret EXCEPT ![d] = NoRet]
  /\ UNCHANGED <<cfg, devs, probe, lastVerdict, activated, now, srvUses, files>>

WhenValidAlt(d, r) ==
  /\ store' = [store EXCEPT ![d] = StoreSet(@, "license.purchase", Val(r.purchase))]
  /\ writes' = [writes EXCEPT ![d] = @ \cup {"license.purchase"}]
  /\ Return(d, Returned("checkCurrentLicense", "ValidLicense", "", r.purchase, r.status))

\* the ValidLicense branch
WhenValid(d, r) ==
  /\ store' = [store EXCEPT ![d] =
                 StoreSet(StoreSet(@, "license.lastCheckSuccess", now),
                          "license.purchase", Val(r.purchase))]
  /\ writes' = [writes EXCEPT ![d] = @ \cup {"license.lastCheckSuccess", "license.purchase"}]
  /\ Return(d, Returned("checkCurrentLicense", "ValidLicense", "", r.purchase, r.status))

WhenInvalidAlt(d, r) ==
  /\ store' = [store EXCEPT ![d] = StoreSet(@, "license.lastCheckSuccess", now)]
  /\ writes' = [writes EXCEPT ![d] = @ \cup {"license.lastCheckSuccess"}]
  /\ Return(d, Returned("checkCurrentLicense", "InvalidLicense", "", {}, r.status))

\* the InvalidLicense branch
WhenInvalid(d, r) ==
  /\ store' = [store EXCEPT ![d] = StoreDelete(@, "license.purchase")]
  /\ writes' = [writes EXCEPT ![d] = @ \cup {"license.purchase"}]
  /\ Return(d, Returned("checkCurrentLicense", "InvalidLicense", "", {}, r.status))

\* the verification resolves
CheckVerifyReturns(d) ==
  /\ pc[d] = "chk_verify"
  /\ \E o \in ValidateLicenseCode(InFlight(d), srvUses) :
       /\ srvUses' = o.uses
       /\ IF o.result.status = "ValidLicense" THEN WhenValid(d, o.result)
          ELSE IF o.result.status = "UnableToCheck"
            THEN /\ Return(d, WhenUnableToCheck(cfg, store[d], now))
                 /\ UNCHANGED <<store, writes>>
          ELSE WhenInvalid(d, o.result)
       /\ lastVerdict' = [lastVerdict EXCEPT ![d] =
                            IF o.result.status = "UnableToCheck" THEN @ ELSE o.result.status]
  /\ UNCHANGED <<cfg, devs, probe, activated, now, files, sent>>

(* ------------------------------ clearLicense -------------------------- *)
\* licenseStore.clear()
ClearedAlt(c, d, s) == StoreDelete(s, "license.key")

Cleared(c, d, s) == StoreDefaults(c, d)

\* positions at which the event loop can run another call of the manager
Suspended == {"idle", "add_precheck", "add_verify", "chk_verify"}

ClearLicense(d) ==
  /\ pc[d] \in Suspended
  /\ store' = [store EXCEPT ![d] = Cleared(cfg, d, @)]
  /\ ret' = [ret EXCEPT ![d] = Returned("clearLicense", "", "", {}, "")]
  /\ sent' = [sent EXCEPT ![d] = IF pc[d] = "idle" THEN <<>> ELSE @]
  /\ writes' = [writes EXCEPT ![d] =
                    IF pc[d] = "idle" THEN (DOMAIN store[d]) \ (DOMAIN store'[d]) ELSE @]
  /\ local' = [local EXCEPT ![d].cleared = @ \/ pc[d] # "idle"]
  /\ activated' = [activated EXCEPT ![d] = FALSE]
  /\ UNCHANGED <<cfg, devs, probe, lastVerdict, now, srvUses, files, pc>>

(* ----------------------------- environment ---------------------------- *)
\* the clock advances
Tick ==
  /\ now < MaxTime
  /\ now' = now + 1
  /\ Forget
  /\ UNCHANGED <<cfg, devs, probe, lastVerdict, activated, srvUses, store, files, pc, local>>

\* what a license file may be turned into behind the manager's back: a file
\* cut short, the license file of another device, or the same key encrypted
\* under another IV
Truncated == [pt |-> "", sec |-> <<>>, iv |-> 0, wellFormed |-> FALSE]
Corruptions(d, ct) ==
  {Truncated}
  \cup {Encrypt("K1", DeriveKey(ProductId, MachineId(e)), 1) : e \in Devices \ {d}}
  \cup {[ct EXCEPT !.iv = v] : v \in IVs}

\* a license file this device wrote is corrupted
CorruptLicenseFile(d) ==
  /\ pc[d] = "idle"
  /\ \E path \in DOMAIN files[d] :
       /\ files[d][path].wellFormed
       /\ files[d][path].sec = DeriveKey(ProductId, MachineId(d))
       /\ \E c \in Corruptions(d, files[d][path]) \ {files[d][path]} :
            files' = [files EXCEPT ![d] = StoreSet(@, path, c)]
  /\ Forget
  /\ UNCHANGED <<cfg, devs, probe, lastVerdict, activated, now, srvUses, store, pc, local>>

(* ---------------------------- specification --------------------------- *)
Next ==
  \/ \E d \in devs, k \in LicenseKeys : AddLicense(d, k)
  \/ \E d \in devs : AddPrecheckReturns(d)
  \/ \E d \in devs : AddVerifyReturns(d)
  \/ \E d \in devs : AddSetKey(d)
  \/ \E d \in devs : AddSetAttempt(d)
  \/ \E d \in devs : AddSetSuccess(d)
  \/ \E d \in devs : AddWriteFile(d)
  \/ \E d \in devs : AddSetIv(d)
  \/ \E d \in devs : AddSetFilePath(d)
  \/ \E d \in devs : CheckCurrentLicense(d)
  \/ \E d \in devs : CheckVerifyReturns(d)
  \/ \E d \in devs : ClearLicense(d)
  \/ \E d \in devs : CorruptLicenseFile(d)
  \/ Tick

Spec == Init /\ [][Next]_vars

(* ------------------- activation on two devices ----------------------- *)
\* Two devices run a manager each, against the same service; each has its own
\* store and files.  The calls are addLicense only.
NextActivate ==
  \/ \E d \in devs, k \in LicenseKeys : AddLicense(d, k)
  \/ \E d \in devs : AddPrecheckReturns(d)
  \/ \E d \in devs : AddVerifyReturns(d)
  \/ \E d \in devs : AddSetKey(d)
  \/ \E d \in devs : AddSetAttempt(d)
  \/ \E d \in devs : AddSetSuccess(d)
  \/ \E d \in devs : AddWriteFile(d)
  \/ \E d \in devs : AddSetIv(d)
  \/ \E d \in devs : AddSetFilePath(d)

\* maxDaysBetweenChecks is read by checkCurrentLicense only
InitTwoDevices ==
  /\ InitWith(Devices)
  /\ cfg.maxDaysBetweenChecks = {}

SpecTwoDevices == InitTwoDevices /\ [][NextActivate]_vars

(* ------------------------------ progress ------------------------------ *)
\* Whether a timer ends a request the service does not answer.  The store
\* variant passes its timeout inside the request body, the second argument of
\* axios.post, and no request configuration; the file variant calls fetch
\* with method, body and headers only.
TimeoutArmed(c) == FALSE

\* the verification of d resolves because its timer fired
TimedOut(d) ==
  /\ TimeoutArmed(cfg)
  /\ (AddPrecheckReturns(d) \/ AddVerifyReturns(d) \/ CheckVerifyReturns(d))

\* The statements between two awaits run to completion, and a timer that is
\* armed fires; nothing makes the service answer or the transport fail.
Fairness ==
  \A d \in Devices :
    /\ WF_vars(AddSetKey(d))
    /\ WF_vars(AddSetAttempt(d))
    /\ WF_vars(AddSetSuccess(d))
    /\ WF_vars(AddWriteFile(d))
    /\ WF_vars(AddSetIv(d))
    /\ WF_vars(AddSetFilePath(d))
    /\ WF_vars(TimedOut(d))

SpecLive == Init /\ [][Next]_vars /\ Fairness

(* -------------- validateLicenseCode, called on its own ---------------- *)
\* every body a transport may decode, whatever service sent it
Bodies ==
  {[success |-> b, purchase |-> p, uses |-> n] :
     b \in BOOLEAN, p \in UNION {PurchaseOptions(k) : k \in ServerKeys}, n \in 0..MaxServerUses}

\* the responses a transport may resolve to: an HTTP status that is a success
\* (2xx) or not, and a body that is JSON or (where the code parses it itself)
\* is not
Responses(c) ==
  {[ok |-> o, json |-> TRUE, body |-> b] : o \in BOOLEAN, b \in Bodies}
  \cup (IF c.variant = "file"
          THEN {[ok |-> o, json |-> FALSE, body |-> NoBody] : o \in BOOLEAN}
          ELSE {})

\* whether the try block throws on a response: axios.post rejects on a status
\* outside 2xx; fetch resolves on every status and response.json() throws on a
\* body that is not JSON
TryThrows(c, resp) ==
  IF c.variant = "store" THEN ~resp.ok ELSE ~resp.json

\* one call of the exported validateLicenseCode: the transport fails, or it
\* resolves to a response
ValidateCall(k, inc) ==
  /\ \/ probe' = [request |-> Request(cfg, k, inc), net |-> "error", ok |-> FALSE,
                  json |-> FALSE, threw |-> TRUE, body |-> NoBody, result |-> UnableToCheck]
     \/ \E resp \in Responses(cfg) :
          probe' = [request |-> Request(cfg, k, inc), net |-> "response", ok |-> resp.ok,
                    json |-> resp.json, threw |-> TryThrows(cfg, resp), body |-> resp.body,
                    result |-> IF TryThrows(cfg, resp) THEN UnableToCheck
                                                       ELSE Classify(resp.body)]
  /\ UNCHANGED <<cfg, devs, now, srvUses, store, files, pc, local, sent, writes, ret, lastVerdict, activated>>

NextValidate == \E k \in LicenseKeys, inc \in BOOLEAN : ValidateCall(k, inc)

SpecValidate == Init /\ [][NextValidate]_vars


(* ================================ claims =============================== *)
\* a recheck of d has just returned after a verification that ended as outcome
Rechecked(d, outcome) ==
  /\ ret[d].op = "checkCurrentLicense"
  /\ ret[d].outcome = outcome

\* an activate of d has just returned after a last verification that ended as outcome
Activated(d, outcome) ==
  /\ ret[d].op = "addLicense"
  /\ ret[d].outcome = outcome

DaysConfigured == Defined(cfg.maxDaysBetweenChecks)

\* the recorded success of d is at most maxDaysBetweenChecks days old
InsideWindow(d) ==
  /\ Has(store[d], "license.lastCheckSuccess")
  /\ now - store[d]["license.lastCheckSuccess"] <= DAY * Val(cfg.maxDaysBetweenChecks)

\* C1: with maxDaysBetweenChecks configured, a recorded success inside the
\* window and a cached purchase, a recheck whose verification is unreachable
\* returns ValidLicense with the cached purchase.
C1_GraceInsideWindow ==
  \A d \in Devices :
    (/\ Rechecked(d, "UnableToCheck")
     /\ DaysConfigured
     /\ InsideWindow(d)
     /\ Has(store[d], "license.purchase"))
    => /\ ret[d].status = "ValidLicense"
       /\ ret[d].purchase = {store[d]["license.purchase"]}

\* C2: with maxDaysBetweenChecks configured and no recorded success, or one
\* older than the window, a recheck whose verification is unreachable returns
\* OutdatedLicense.
C2_GraceOutsideWindow ==
  \A d \in Devices :
    (/\ Rechecked(d, "UnableToCheck")
     /\ DaysConfigured
     /\ ~InsideWindow(d))
    => ret[d].status = "OutdatedLicense"

\* C3: an activate whose verification ends InvalidLicense or UnableToCheck
\* returns failure with the classified error and has written nothing to the
\* store.
C3_FailedActivateWritesNothing ==
  \A d \in Devices :
    (Activated(d, "InvalidLicense") \/ Activated(d, "UnableToCheck"))
    => /\ ret[d].status = "failure"
       /\ ret[d].error \in (IF ret[d].outcome = "InvalidLicense"
                              THEN {"ActivationError", "LicenseRefunded"}
                              ELSE {"TransportError"})
       /\ writes[d] = {}

\* C3 witness: an activate of another key than the one on record has failed
C3_Witness ==
  \E d \in Devices :
    /\ Activated(d, "InvalidLicense")
    /\ ret[d].error = "ActivationError"
    /\ cfg.variant = "store"
    /\ Has(store[d], "license.key")
    /\ Has(store[d], "license.lastCheckSuccess")
    /\ store[d]["license.key"] # sent[d][Len(sent[d])].license_key


UsesConfigured == Defined(cfg.maxUses)

\* a pre-check that is valid with a use count at or above maxUses
LimitReached(r) ==
  /\ r.status = "ValidLicense"
  /\ r.uses >= Val(cfg.maxUses)

\* C4: with maxUses configured, an activate whose pre-check is ValidLicense with
\* a use count that meets or exceeds maxUses returns MaxUseExceeded, has issued
\* the non-incrementing request only and has written nothing; and no activate
\* goes on to its incrementing request after such a pre-check.
C4_UseLimit ==
  \A d \in Devices :
    /\ (ret[d].op = "addLicense" /\ ret[d].error = "MaxUseExceeded")
       => /\ UsesConfigured
          /\ ret[d].status = "failure"
          /\ Len(sent[d]) = 1
          /\ sent[d][1].increment_uses_count = "false"
          /\ writes[d] = {}
    /\ (UsesConfigured /\ pc[d] = "add_verify") => ~LimitReached(local[d].result)
    /\ (UsesConfigured /\ ret[d].op = "addLicense" /\ Len(sent[d]) = 1)
       => ret[d].error = "MaxUseExceeded"

\* C4 witness: the limit was met exactly, and the activate was turned down
C4_Witness ==
  \E d \in Devices :
    /\ ret[d].op = "addLicense"
    /\ ret[d].error = "MaxUseExceeded"
    /\ \E k \in ServerKeys : sent[d][1].license_key = k /\ srvUses[k] = Val(cfg.maxUses)

\* the purchase record of a body is absent, refunded or charged back
BadPurchase(body) ==
  \/ body.purchase = {}
  \/ \E p \in body.purchase : p.refunded \/ p.chargebacked

\* C5 as stated: a body with a bad purchase record is classified
\* InvalidLicense / LicenseRefunded whatever its success flag.
C5_RefundWhateverSuccess ==
  (~probe.threw /\ probe.request.license_key # "" /\ BadPurchase(probe.body))
  => /\ probe.result.status = "InvalidLicense"
     /\ probe.result.error = "LicenseRefunded"

\* C5 amended: a body with a bad purchase record is never classified
\* ValidLicense; it is InvalidLicense / LicenseRefunded when its success flag
\* is true and InvalidLicense / ActivationError when it is false.
C5_RefundNeverValid ==
  (~probe.threw /\ probe.request.license_key # "" /\ BadPurchase(probe.body))
  => /\ probe.result.status = "InvalidLicense"
     /\ probe.result.error = (IF probe.body.success THEN "LicenseRefunded" ELSE "ActivationError")

\* C5 witness: a success body with a refunded purchase was classified
C5_Witness ==
  /\ ~probe.threw
  /\ probe.body.success
  /\ \E p \in probe.body.purchase : p.refunded /\ ~p.chargebacked
  /\ probe.result.error = "LicenseRefunded"

RecordErased(d) ==
  /\ ~Has(store[d], "license.key")
  /\ ~Has(store[d], "license.lastCheckAttempt")
  /\ ~Has(store[d], "license.lastCheckSuccess")
  /\ ~Has(store[d], "license.purchase")

\* C7: when clearLicense has returned the record is erased, whatever it held
\* and also when it held nothing; a recheck that finds no key returns NotSet.
C7_ClearResets ==
  \A d \in Devices :
    /\ ret[d].op = "clearLicense"
       => /\ RecordErased(d)
          /\ store[d] = StoreDefaults(cfg, d)
    /\ (ret[d].op = "checkCurrentLicense" /\ ret[d].outcome = "" /\ ~Has(store[d], "license.key"))
       => ret[d].status = "NotSet"

\* C7 witness: clearLicense has erased a record that held a key and a purchase
C7_Witness ==
  \E d \in Devices :
    /\ ret[d].op = "clearLicense"
    /\ pc[d] = "idle"
    /\ {"license.key", "license.lastCheckSuccess", "license.purchase"} \subseteq writes[d]

\* C8: whenever both timestamps are set, lastCheckAttempt >= lastCheckSuccess.
C8_AttemptNotBeforeSuccess ==
  \A d \in Devices :
    (Has(store[d], "license.lastCheckAttempt") /\ Has(store[d], "license.lastCheckSuccess"))
    => store[d]["license.lastCheckAttempt"] >= store[d]["license.lastCheckSuccess"]

\* C9: with encryption configured, the stored key field never holds a license
\* key in plaintext.
C9_NoPlaintextKeyAtRest ==
  \A d \in Devices :
    (~cfg.disableEncryption /\ Has(store[d], "license.key"))
    => store[d]["license.key"] \notin LicenseKeys

\* the record of d is set and does not decrypt to a license key
Undecryptable(d) ==
  /\ cfg.variant = "file"
  /\ ~NotSet(cfg, store[d], files[d])
  /\ StoredKeys(cfg, d, store[d], files[d]) \cap LicenseKeys = {}

\* C10: a recheck of a record that does not decrypt fails with an error of its
\* own: it returns neither NotSet nor a license verdict, issues no
\* verification request and writes nothing to the store.
C10_DecryptionErrorDistinct ==
  \A d \in Devices :
    /\ pc[d] = "chk_verify" => local[d].licenseKey \in LicenseKeys
    /\ (ret[d].op = "checkCurrentLicense" /\ Undecryptable(d))
       => /\ ret[d].status = "exception"
          /\ sent[d] = <<>>
          /\ writes[d] = {}


\* C11: when the transport fails (network error, timeout) or resolves to a
\* response whose HTTP status is not a success, validateLicenseCode resolves to
\* UnableToCheck, never to InvalidLicense or ValidLicense.
C11_TransportFailuresUnreachable ==
  (probe.net = "error" \/ (probe.net = "response" /\ ~probe.ok))
  => probe.result.status = "UnableToCheck"

\* C12: when a recheck whose verification was ValidLicense or a successful
\* addLicense has returned, the cached purchase is the purchase of that
\* verification; when a recheck or an addLicense whose verification was
\* InvalidLicense has returned, no purchase is cached.
C12_CachedPurchaseTracksVerification ==
  \A d \in Devices :
    /\ (Rechecked(d, "ValidLicense") \/ (Activated(d, "ValidLicense") /\ ret[d].status = "success"))
       => /\ Has(store[d], "license.purchase")
          /\ ret[d].purchase = {store[d]["license.purchase"]}
    /\ (Rechecked(d, "InvalidLicense") \/ Activated(d, "InvalidLicense"))
       => ~Has(store[d], "license.purchase")

\* C13: every addLicense and every checkCurrentLicense that has started
\* eventually returns, also when the service never answers its request.
C13_EveryCallReturns ==
  \A d \in Devices : (pc[d] # "idle") ~> (pc[d] = "idle")

\* C14: an operation that has issued a verification request has written
\* lastCheckAttempt before; lastCheckSuccess is written only after the request
\* returned ValidLicense, and an operation whose verification ended
\* InvalidLicense or UnableToCheck has not written lastCheckSuccess nor set a
\* purchase.
C14_WriteOrdering ==
  \A d \in Devices :
    /\ sent[d] # <<>> => "license.lastCheckAttempt" \in writes[d]
    /\ (pc[d] # "idle" /\ "license.lastCheckSuccess" \in writes[d])
       => local[d].result.status = "ValidLicense"
    /\ (ret[d].op \in {"addLicense", "checkCurrentLicense"}
        /\ "license.lastCheckSuccess" \in writes[d])
       => ret[d].outcome = "ValidLicense"
    /\ (ret[d].op \in {"addLicense", "checkCurrentLicense"}
        /\ ret[d].outcome \in {"InvalidLicense", "UnableToCheck"}
        /\ "license.purchase" \in writes[d])
       => ~Has(store[d], "license.purchase")

\* C14 amended: checkCurrentLicense writes lastCheckAttempt before it issues its
\* request; addLicense writes nothing before its verification returned
\* ValidLicense; in both, lastCheckSuccess is written only after the request
\* returned ValidLicense, and an operation whose verification ended
\* InvalidLicense or UnableToCheck has not written lastCheckSuccess nor set a
\* purchase.
C14_WriteOrderingAmended ==
  \A d \in Devices :
    /\ pc[d] = "chk_verify"
       => /\ "license.lastCheckAttempt" \in writes[d]
          /\ ~local[d].cleared => Has(store[d], "license.lastCheckAttempt")
    /\ pc[d] \in {"add_precheck", "add_verify"} => writes[d] = {}
    /\ (pc[d] # "idle" /\ "license.lastCheckSuccess" \in writes[d])
       => local[d].result.status = "ValidLicense"
    /\ (ret[d].op \in {"addLicense", "checkCurrentLicense"}
        /\ "license.lastCheckSuccess" \in writes[d])
       => ret[d].outcome = "ValidLicense"
    /\ (ret[d].op \in {"addLicense", "checkCurrentLicense"}
        /\ ret[d].outcome \in {"InvalidLicense", "UnableToCheck"}
        /\ "license.purchase" \in writes[d])
       => ~Has(store[d], "license.purchase")

\* C14 witness: a recheck whose verification was unreachable has returned; it
\* has stamped the attempt and left an older success as it was
C14_Witness ==
  \E d \in Devices :
    /\ Rechecked(d, "UnableToCheck")
    /\ writes[d] = {"license.lastCheckAttempt"}
    /\ Has(store[d], "license.lastCheckSuccess")
    /\ store[d]["license.lastCheckSuccess"] < store[d]["license.lastCheckAttempt"]

\* the number of requests of q that ask the service to count a use
Incrementing(q) ==
  Cardinality({i \in 1..Len(q) : q[i].increment_uses_count = "true"})

\* C15: a checkCurrentLicense issues no incrementing request; an addLicense
\* issues at most one, and exactly one when it returns success.
C15_UseCountAccounting ==
  \A d \in Devices :
    /\ (pc[d] = "chk_verify" \/ ret[d].op = "checkCurrentLicense")
       => Incrementing(sent[d]) = 0
    /\ Incrementing(sent[d]) <= 1
    /\ (ret[d].op = "addLicense" /\ ret[d].status = "success")
       => Incrementing(sent[d]) = 1

\* C15 witness: an addLicense with a pre-check has returned success after two
\* requests, and the service has counted its one activation
C15_Witness ==
  \E d \in Devices :
    /\ ret[d].op = "addLicense"
    /\ ret[d].status = "success"
    /\ Len(sent[d]) = 2
    /\ sent[d][1].increment_uses_count = "false"
    /\ srvUses[sent[d][2].license_key] = 1

Succeeding ==
  {"add_setKey", "add_setAttempt", "add_setSuccess", "add_writeFile", "add_setIv",
   "add_setFilePath"}

\* C17: with maxUses configured, an addLicense goes on to its incrementing
\* request, and on to success, only after a pre-check that was ValidLicense
\* with a use count below maxUses.
C17_SuccessNeedsValidPrecheck ==
  \A d \in Devices :
    (UsesConfigured /\ pc[d] \in {"add_verify"} \cup Succeeding)
    => /\ local[d].precheck.status = "ValidLicense"
       /\ local[d].precheck.uses < Val(cfg.maxUses)

\* C18: when a recheck of a record that holds a license key falls back to the
\* cache and returns ValidLicense, the purchase it returns is a purchase of the
\* key on record, the key the recheck has sent for verification.
C18_CachedPurchaseOfStoredKey ==
  \A d \in Devices :
    (/\ Rechecked(d, "UnableToCheck")
     /\ ret[d].status = "ValidLicense"
     /\ sent[d][1].license_key \in LicenseKeys)
    => \A p \in ret[d].purchase : p.license_key = sent[d][1].license_key

\* the key the record of d was activated with
ActivatedKey(d) ==
  IF cfg.variant = "store"
    THEN store[d]["license.key"]
    ELSE files[d][store[d]["license.filePath"]].pt

\* the devices whose record holds a successful activation of k
ActivatedWith(k) == {d \in Devices : activated[d] /\ ActivatedKey(d) = k}

\* C19 as stated: with maxUses configured on both devices, the service's use
\* count of a key never exceeds maxUses, and no more than maxUses devices hold
\* a successful activation of it.
C19_UseLimitTwoDevices ==
  UsesConfigured
  => \A k \in ServerKeys :
       /\ srvUses[k] <= Val(cfg.maxUses)
       /\ Cardinality(ActivatedWith(k)) <= Val(cfg.maxUses)

\* C19 amended: the limit is best-effort.  No device goes on to its
\* incrementing request after a pre-check that was ValidLicense with a use
\* count at or above maxUses, and a device returns MaxUseExceeded only after
\* such a pre-check; nothing relates the count a pre-check saw to the count at
\* the time of the incrementing request.
C19_UseLimitBestEffort ==
  \A d \in Devices :
    /\ (UsesConfigured /\ pc[d] \in {"add_verify"} \cup Succeeding)
       => ~LimitReached(local[d].precheck)
    /\ (ret[d].op = "addLicense" /\ ret[d].error = "MaxUseExceeded")
       => /\ UsesConfigured
          /\ ret[d].outcome = "ValidLicense"
          /\ Len(sent[d]) = 1

\* C19 witness: both devices are completing a successful activation of the
\* same key after pre-checks that were ValidLicense below the limit, and the
\* service has counted one use more than maxUses
C19_Witness ==
  /\ UsesConfigured
  /\ \E k \in ServerKeys :
       /\ srvUses[k] = Val(cfg.maxUses) + 1
       /\ \A d \in Devices :
            /\ pc[d] \in Succeeding
            /\ local[d].licenseKey = k
            /\ local[d].precheck.status = "ValidLicense"
            /\ local[d].precheck.uses < Val(cfg.maxUses)

\* an addLicense or a checkCurrentLicense of d has just returned, and
\* clearLicense ran while it was waiting for its verification
ReturnedAfterClear(d) ==
  /\ ret[d].op \in {"addLicense", "checkCurrentLicense"}
  /\ ret[d].cleared

\* C20 as stated: when an operation returns during which clearLicense ran, the
\* record is erased and a recheck would return NotSet.
C20_ClearWins ==
  \A d \in Devices :
    ReturnedAfterClear(d)
    => /\ RecordErased(d)
       /\ NotSet(cfg, store[d], files[d])

\* C20 amended: the last write wins.  When an operation returns during which
\* clearLicense ran, the record is the cleared one plus what the operation
\* wrote after its verification: nothing when the verification did not end
\* ValidLicense (or addLicense failed); lastCheckSuccess and purchase without a
\* key after a recheck, which a next recheck reports as NotSet; a complete
\* activation after a successful addLicense.
C20_LastWriteWins ==
  \A d \in Devices :
    ReturnedAfterClear(d)
    => /\ (ret[d].op = "checkCurrentLicense" /\ ret[d].outcome # "ValidLicense")
          => store[d] = StoreDefaults(cfg, d)
       /\ (ret[d].op = "checkCurrentLicense" /\ ret[d].outcome = "ValidLicense")
          => /\ ~Has(store[d], "license.key")
             /\ NotSet(cfg, store[d], files[d])
             /\ Has(store[d], "license.lastCheckSuccess")
             /\ Has(store[d], "license.purchase")
       /\ (ret[d].op = "addLicense" /\ ret[d].status = "failure")
          => store[d] = StoreDefaults(cfg, d)
       /\ (ret[d].op = "addLicense" /\ ret[d].status = "success")
          => /\ Has(store[d], "license.key")
             /\ Has(store[d], "license.lastCheckSuccess")
             /\ ~NotSet(cfg, store[d], files[d])
             /\ activated[d]

\* C20 witness: a recheck has returned ValidLicense after clearLicense ran in
\* between, and has left a purchase on a record without a key
C20_Witness ==
  \E d \in Devices :
    /\ ReturnedAfterClear(d)
    /\ Rechecked(d, "ValidLicense")
    /\ Has(store[d], "license.purchase")
    /\ ~Has(store[d], "license.key")

====
